---- MODULE Spec2Model ----
(***************************************************************************)
(* ShinyJar expense tracker: the Expense Store, the Budget Store and the   *)
(* budget evaluation engine of both front-ends.                            *)
(*   browser  : src/streamlit_browser_version/streamlit_cloud_app.py       *)
(*   terminal : src/terminal_version/expense_tracker.py                    *)
(* Dates are day numbers, amounts are whole currency units, a percentage   *)
(* is kept in tenths of a percent (1083 stands for 108.3).                 *)
(***************************************************************************)
EXTENDS Integers, Sequences, FiniteSets, TLC

\* ------------------------------------------------------------------ bounds
MaxDay      == 2    \* the calendar is 0..MaxDay
MaxExpenses == 2    \* most rows of the Expense Store the evaluation engine is given
MaxBudgets  == 2    \* most rows of the Budget Store
MaxRows     == 3    \* most rows of the Expense Store in a session
MaxLabelled == 2    \* most rows of the Expense Store while both stores change

\* ------------------------------------------------------- special values
NaT  == -1          \* pandas.NaT, the missing timestamp
None == -2          \* Python None
NaN  == -3          \* the missing float of a left merge without a match
inf  == -4          \* the float a division of a positive number by zero gives
Empty == -5         \* an empty cell of a CSV file

Dates   == 0..MaxDay
\* today lies inside the calendar: there is a day before it and a day after it
Todays  == 1..(MaxDay - 1)
Periods == {"monthly", "quarterly", "yearly"}

VARIABLES
  frontend,            \* "browser" or "terminal": which program is running
  today,               \* date.today() / datetime.now()
  expenses_df,         \* browser ExpenseManager.expenses_df
  budgets_df,          \* browser ExpenseManager.budgets_df
  session_expenses_df, \* browser st.session_state.expenses_df
  session_budgets_df,  \* browser st.session_state.budgets_df
  df,                  \* terminal ExpenseManager.df
  budgets,             \* terminal ExpenseManager.budgets (a list of dicts)
  expenses_file,       \* terminal expenses.csv (its data rows)
  budgets_file,        \* terminal budgets.csv (its data rows)
  pc,                  \* the operation that ran last
  args,                \* the arguments it was called with
  raised,              \* the exception it raised, "" when it returned
  alerts,              \* the alerts it returned (browser) or printed (terminal)
  comparison,          \* the table it returned
  spent,               \* the spent it computed for every budget it evaluated
  view                 \* the rows view_expenses returned

stores == <<expenses_df, budgets_df, session_expenses_df, session_budgets_df,
            df, budgets, expenses_file, budgets_file>>

vars == <<frontend, today, stores, pc, args, raised, alerts, comparison, spent, view>>

\* ------------------------------------------------------------- sequences
RECURSIVE SumAmount(_)
\* Series.sum() of the 'amount' column; the empty selection sums to 0
SumAmount(rows) ==
  IF rows = <<>> THEN 0 ELSE Head(rows).amount + SumAmount(Tail(rows))

RECURSIVE Flatten(_)
Flatten(ss) == IF ss = <<>> THEN <<>> ELSE Head(ss) \o Flatten(Tail(ss))

\* every sequence over S of length at most n
SeqsUpTo(S, n) == UNION {[1..k -> S] : k \in 0..n}

\* the row labels of a frame that was built with ignore_index / reset_index
Relabel(rows) == [i \in 1..Len(rows) |-> [rows[i] EXCEPT !.idx = i - 1]]

\* pandas comparisons: a comparison with NaT is False
Le(a, b) == a # NaT /\ b # NaT /\ a <= b
Ge(a, b) == a # NaT /\ b # NaT /\ a >= b

\* pd.notnull
notnull(v) == v # NaT /\ v # None /\ v # NaN

\* ------------------------------------------------ budget evaluation engine
\* browser get_alerts / get_budget_vs_actual: the end of the evaluation window
WindowEnd(budget, now) ==
  IF notnull(budget.end_date) THEN budget.end_date ELSE now

\* terminal _check_budget_alerts: Python truth of budget['end_date']. None is
\* falsy; a Timestamp is truthy, and so is NaT (it defines no __bool__)
Truthy(v) == v # None

\* terminal _check_budget_alerts: the end of the window. pd.to_datetime(NaT)
\* is NaT, which a reloaded budget without end date carries
CheckWindowEnd(budget, now) ==
  IF Truthy(budget.end_date) THEN budget.end_date ELSE now

\* the date mask (frame['date'] >= start) & (frame['date'] <= end)
InWindow(frame, start, end) ==
  LET Test(r) == Ge(r.date, start) /\ Le(r.date, end)
  IN  SelectSeq(frame, Test)

\* the category mask frame['category'] == cat
InCategory(frame, cat) ==
  LET Test(r) == r.category = cat
  IN  SelectSeq(frame, Test)

\* spent of one budget over the window [start, end]
Spent(frame, cat, start, end) ==
  IF cat = "overall"
  THEN SumAmount(InWindow(frame, start, end))
  ELSE SumAmount(InCategory(InWindow(frame, start, end), cat))

\* the alert rule with the boundary on the wrong side
Overspent_at_limit(sp, budget_amount) == sp >= budget_amount

\* the alert rule
Overspent(sp, budget_amount) == sp > budget_amount

\* the alert text: category, budget amount and spent
Alert(budget, sp) ==
  [category |-> budget.category, budget |-> budget.amount, spent |-> sp]

\* browser get_alerts: the local spent of every pass of the loop, in store order
alert_spent(frame, bframe, now) ==
  [i \in 1..Len(bframe) |->
     Spent(frame, bframe[i].category, bframe[i].start_date, WindowEnd(bframe[i], now))]

\* browser ExpenseManager.get_alerts
get_alerts(frame, bframe, now) ==
  LET sp == alert_spent(frame, bframe, now)
  IN  Flatten([i \in 1..Len(bframe) |->
        IF Overspent(sp[i], bframe[i].amount) THEN << Alert(bframe[i], sp[i]) >> ELSE <<>>])

\* terminal _check_budget_alerts: the local spent of every pass of the loop
check_spent(frame, blist, now) ==
  [i \in 1..Len(blist) |->
     Spent(frame, blist[i].category, blist[i].start_date, CheckWindowEnd(blist[i], now))]

\* terminal ExpenseManager._check_budget_alerts: the alerts it prints
check_budget_alerts(frame, blist, now) ==
  LET sp == check_spent(frame, blist, now)
  IN  Flatten([i \in 1..Len(blist) |->
        IF Overspent(sp[i], blist[i].amount) THEN << Alert(blist[i], sp[i]) >> ELSE <<>>])

\* terminal _check_budget_alerts: the keys it reads of every budget dict
\* (budget['period'] is read only while an alert is printed)
CheckedKeys == {"category", "amount", "start_date", "end_date"}

\* terminal _check_budget_alerts: the first pass of the loop that raises
\* KeyError, 0 when none does. A pass raises when the dict lacks a key it
\* reads or the frame lacks the amount column it sums
first_key_error(frame, blist) ==
  LET Bad(i) == \/ ~(CheckedKeys \subseteq DOMAIN blist[i])
                \/ \E j \in 1..Len(frame) : "amount" \notin DOMAIN frame[j]
      bad == {i \in 1..Len(blist) : Bad(i)}
  IN  IF bad = {} THEN 0 ELSE CHOOSE i \in bad : \A j \in bad : i <= j

\* terminal _check_budget_alerts: the exception that ends it, "" when it returns
check_raises(frame, blist) ==
  IF first_key_error(frame, blist) = 0 THEN "" ELSE "KeyError"

\* terminal _check_budget_alerts: the budgets whose pass of the loop ran to
\* its end
checked(frame, blist) ==
  IF first_key_error(frame, blist) = 0 THEN blist
  ELSE SubSeq(blist, 1, first_key_error(frame, blist) - 1)

\* the active_budgets mask without the budgets that start today
IsActive_after_start(budget, now) ==
  /\ budget.period = "monthly"
  /\ budget.start_date # NaT /\ budget.start_date < now
  /\ (Ge(budget.end_date, now) \/ budget.end_date = NaT)

\* get_budget_vs_actual: the active_budgets mask
IsActive(budget, now) ==
  /\ budget.period = "monthly"
  /\ Le(budget.start_date, now)
  /\ (Ge(budget.end_date, now) \/ budget.end_date = NaT)

\* round(n/d, 0) as numpy rounds, halves to the even neighbour (n >= 0, d > 0)
RoundHalfEven(n, d) ==
  LET q == n \div d
      r == n % d
  IN  IF 2 * r < d THEN q
      ELSE IF 2 * r > d THEN q + 1
      ELSE IF q % 2 = 0 THEN q ELSE q + 1

\* (actual / budget * 100).round(1).fillna(0), in tenths of a percent:
\* 0/0 is NaN and fillna makes it 0; x/0 for x > 0 is inf and stays inf
Percentage(actual, budget) ==
  IF budget = 0
  THEN IF actual = 0 THEN 0 ELSE inf
  ELSE RoundHalfEven(actual * 1000, budget)

\* active_budgets[['category','amount']].merge(actual_df, on='category', how='left'):
\* every left row once per right row of its category, or once with NaN.
\* src is the label the left row had in budgets_df (merge drops it; it is kept
\* to name the budget record a row came from)
merge_left(left, right) ==
  LET One(l) ==
        LET m == InCategory(right, l.category)
        IN  IF m = <<>>
            THEN << [category |-> l.category, amount |-> l.amount, actual |-> NaN, src |-> l.idx] >>
            ELSE [j \in 1..Len(m) |->
                    [category |-> l.category, amount |-> l.amount, actual |-> m[j].actual, src |-> l.idx]]
  IN  Flatten([i \in 1..Len(left) |-> One(left[i])])

\* the label of a row of actual_list
ActualLabel(cat) == IF cat = "overall" THEN "Overall" ELSE cat

\* get_budget_vs_actual: the rows of budgets_df the mask keeps, labels kept
active_budgets(bframe, now) ==
  LET Act(b) == IsActive(b, now)
  IN  SelectSeq(bframe, Act)

\* get_budget_vs_actual: actual_list, one entry for every active budget
actual_list(frame, bframe, now) ==
  LET active == active_budgets(bframe, now)
  IN  [i \in 1..Len(active) |->
        [category |-> ActualLabel(active[i].category),
         actual   |-> Spent(frame, active[i].category, active[i].start_date,
                            WindowEnd(active[i], now))]]

\* get_budget_vs_actual: a row of the comparison after the merge
ComparisonRow(m) ==
  LET actual == IF m.actual = NaN THEN 0 ELSE m.actual
  IN  [category   |-> IF m.category = "overall" THEN "Overall" ELSE m.category,
       budget     |-> m.amount,
       actual     |-> actual,
       difference |-> actual - m.amount,
       percentage |-> Percentage(actual, m.amount),
       src        |-> m.src]

\* browser ExpenseManager.get_budget_vs_actual
get_budget_vs_actual(frame, bframe, now) ==
  IF bframe = <<>> \/ frame = <<>> THEN <<>>
  ELSE IF active_budgets(bframe, now) = <<>> THEN <<>>
  ELSE LET merged == merge_left(active_budgets(bframe, now), actual_list(frame, bframe, now))
       IN  [i \in 1..Len(merged) |-> ComparisonRow(merged[i])]

\* ------------------------------------------------------------ persistence
\* to_csv of a text column: a missing value is written as an empty cell
WriteText(value) == IF value = "NaN" THEN "" ELSE value

\* terminal _save_expenses: df.to_csv(index=False), the labels are not written
save_expenses(frame) ==
  [i \in 1..Len(frame) |->
     [amount |-> frame[i].amount, date |-> frame[i].date,
      category |-> WriteText(frame[i].category),
      description |-> WriteText(frame[i].description),
      payment_method |-> WriteText(frame[i].payment_method),
      tags |-> WriteText(frame[i].tags)]]

\* terminal _save_budgets: pd.DataFrame(budgets).to_csv(index=False); a None
\* or NaT end_date is written as an empty cell
save_budgets(blist) ==
  [i \in 1..Len(blist) |->
     [blist[i] EXCEPT !.end_date = IF @ \in {None, NaT} THEN Empty ELSE @]]

\* pd.read_csv of a text column: an empty cell is read as NaN
ReadText(cell) == IF cell = "" THEN "NaN" ELSE cell

\* pd.to_datetime of a date column read by pd.read_csv: an empty cell is NaT
ReadDate(cell) == IF cell = Empty THEN NaT ELSE cell

\* terminal _load_expenses: a missing file and a file without rows both give
\* the empty frame; the rows get the labels 0, 1, ...
load_expenses(file) ==
  [i \in 1..Len(file) |->
     [idx |-> i - 1, amount |-> file[i].amount, date |-> ReadDate(file[i].date),
      category |-> ReadText(file[i].category), description |-> ReadText(file[i].description),
      payment_method |-> ReadText(file[i].payment_method), tags |-> ReadText(file[i].tags)]]

\* terminal _load_budgets: df.to_dict('records') after the dates are parsed
load_budgets(file) ==
  [i \in 1..Len(file) |->
     [category |-> ReadText(file[i].category), amount |-> file[i].amount,
      period |-> ReadText(file[i].period), start_date |-> ReadDate(file[i].start_date),
      end_date |-> ReadDate(file[i].end_date)]]

\* ------------------------------------------------- evaluation: the inputs
ExpenseKinds ==
  { [category |-> "Food", amount |-> 1], [category |-> "Food", amount |-> 2],
    [category |-> "food", amount |-> 1] }

BudgetKinds ==
  { [category |-> "overall", amount |-> 3, period |-> "monthly"],
    [category |-> "overall", amount |-> 3, period |-> "yearly"],
    [category |-> "Food",    amount |-> 3, period |-> "monthly"],
    [category |-> "Food",    amount |-> 3, period |-> "quarterly"],
    [category |-> "Food",    amount |-> 0, period |-> "monthly"] }

\* a row of the expense frame; Relabel sets the label idx
ExpenseInputs ==
  { [idx |-> 0, amount |-> k.amount, date |-> d, category |-> k.category,
     description |-> "", payment_method |-> "Cash", tags |-> ""] :
    k \in ExpenseKinds, d \in Dates }

\* the windows of the budgets: an end date, when there is one, is not before
\* the start date
Windows(ends) ==
  { w \in [start_date : Dates, end_date : ends] :
      w.end_date \in Dates => w.start_date <= w.end_date }

\* a row of budgets_df as add_budget / edit_budget build it: end_date is a
\* Timestamp or NaT
BudgetRowInputs ==
  { [idx |-> 0, category |-> k.category, amount |-> k.amount, period |-> k.period,
     start_date |-> w.start_date, end_date |-> w.end_date] :
    k \in BudgetKinds, w \in Windows(Dates \cup {NaT}) }

\* a dict of the terminal's budgets list: end_date is None when set_budget got
\* none in this session, NaT when _load_budgets read an empty cell
BudgetDictInputs ==
  { [category |-> k.category, amount |-> k.amount, period |-> k.period,
     start_date |-> w.start_date, end_date |-> w.end_date] :
    k \in BudgetKinds, w \in Windows(Dates \cup {NaT, None}) }

\* budgets loaded from budgets.csv precede the ones set in this session
LoadedFirst(blist) ==
  \A i, j \in 1..Len(blist) :
     (i < j /\ blist[i].end_date = None) => blist[j].end_date # NaT

InitEval ==
  /\ frontend \in {"browser", "terminal"}
  /\ today \in Todays
  /\ \E e \in SeqsUpTo(ExpenseInputs, MaxExpenses) :
        /\ expenses_df = IF frontend = "browser" THEN Relabel(e) ELSE <<>>
        /\ df          = IF frontend = "terminal" THEN Relabel(e) ELSE <<>>
  /\ IF frontend = "browser"
     THEN /\ \E b \in SeqsUpTo(BudgetRowInputs, MaxBudgets) : budgets_df = Relabel(b)
          /\ budgets = <<>>
     ELSE /\ budgets \in {b \in SeqsUpTo(BudgetDictInputs, MaxBudgets) : LoadedFirst(b)}
          /\ budgets_df = <<>>
  /\ session_expenses_df = expenses_df
  /\ session_budgets_df = budgets_df
  /\ expenses_file = save_expenses(df)
  /\ budgets_file = save_budgets(budgets)
  /\ pc = "init"
  /\ args = <<>>
  /\ raised = ""
  /\ view = <<>>
  /\ alerts = <<>>
  /\ comparison = <<>>
  /\ spent = <<>>

\* browser: a page calls manager.get_alerts()
GetAlerts ==
  /\ frontend = "browser"
  /\ alerts' = get_alerts(expenses_df, budgets_df, today)
  /\ spent' = alert_spent(expenses_df, budgets_df, today)
  /\ comparison' = <<>>
  /\ pc' = "get_alerts"
  /\ args' = <<>>
  /\ raised' = ""
  /\ view' = <<>>
  /\ UNCHANGED <<frontend, today, stores>>

\* terminal: _check_budget_alerts() runs
CheckBudgetAlerts ==
  /\ frontend = "terminal"
  /\ alerts' = check_budget_alerts(df, checked(df, budgets), today)
  /\ spent' = check_spent(df, checked(df, budgets), today)
  /\ comparison' = <<>>
  /\ pc' = "check_budget_alerts"
  /\ args' = <<>>
  /\ raised' = check_raises(df, budgets)
  /\ view' = <<>>
  /\ UNCHANGED <<frontend, today, stores>>

\* browser: the comparison page calls manager.get_budget_vs_actual()
GetBudgetVsActual ==
  /\ frontend = "browser"
  /\ comparison' = get_budget_vs_actual(expenses_df, budgets_df, today)
  /\ spent' = IF expenses_df = <<>> \/ budgets_df = <<>> THEN <<>>
               ELSE [i \in 1..Len(active_budgets(budgets_df, today)) |->
                       actual_list(expenses_df, budgets_df, today)[i].actual]
  /\ alerts' = <<>>
  /\ pc' = "get_budget_vs_actual"
  /\ args' = <<>>
  /\ raised' = ""
  /\ view' = <<>>
  /\ UNCHANGED <<frontend, today, stores>>

NextEval == GetAlerts \/ CheckBudgetAlerts \/ GetBudgetVsActual

SpecEval == InitEval /\ [][NextEval]_vars

\* ------------------------------------------------- the stores in a session
\* the expenses a user enters, under the date the Add Expense page offers
\* (today)
NewExpenses ==
  { [idx |-> 0, amount |-> k.amount, date |-> today, category |-> k.category,
     description |-> "beads", payment_method |-> "Cash", tags |-> "gold"] :
    k \in ExpenseKinds }

\* the keyword arguments of edit_expense, as the key/value pairs it iterates
EditInputs ==
  { <<>>,
    << <<"category", "food">> >>,
    << <<"note", "x">>, <<"amount", -1>> >> }

\* the indices a caller passes: below, inside and above the range
Indices == -1..MaxRows

\* the budgets a user sets: category (blank for overall), amount, period,
\* start date and end date (None when left out)
NewBudgets ==
  { [category |-> "Food", amount |-> 3, period |-> "monthly", start_date |-> 0, end_date |-> None],
    [category |-> "",     amount |-> 3, period |-> "yearly",  start_date |-> None, end_date |-> MaxDay] }

\* pd.concat([new_row, frame], ignore_index=True): the new row in front
concat_front(frame, row) == Relabel(<<row>> \o frame)

\* pd.concat([frame, new_row]) without ignore_index: the new row keeps its label 0
concat_keep_labels(frame, row) == Append(frame, row)

\* pd.concat([frame, new_row], ignore_index=True)
concat(frame, row) == Relabel(Append(frame, row))

\* frame.drop(index) without reset_index: the later rows keep their labels
drop_keep_labels(frame, index) ==
  LET Keep(r) == r.idx # index
  IN  SelectSeq(frame, Keep)

\* frame.drop(index).reset_index(drop=True): drop removes the rows labelled index
drop_reset(frame, index) ==
  LET Keep(r) == r.idx # index
  IN  Relabel(SelectSeq(frame, Keep))

\* frame[key] = value: the assignment that writes the whole column
set_at_every_row(frame, index, key, value) ==
  [i \in 1..Len(frame) |-> [frame[i] EXCEPT ![key] = value]]

\* frame.at[index, key] = value for a key that is a column
set_at(frame, index, key, value) ==
  [i \in 1..Len(frame) |->
     IF frame[i].idx = index THEN [frame[i] EXCEPT ![key] = value] ELSE frame[i]]

ExpenseColumns == {"amount", "date", "category", "description", "payment_method", "tags"}

RECURSIVE apply_kwargs(_, _, _)
\* the loop of edit_expense over kwargs.items(): a key that is no column is
\* skipped; pd.to_datetime of a date and float of an amount keep the value
apply_kwargs(frame, index, kwargs) ==
  IF kwargs = <<>> THEN frame
  ELSE LET key   == Head(kwargs)[1]
           value == Head(kwargs)[2]
       IN  apply_kwargs(IF key \in ExpenseColumns THEN set_at(frame, index, key, value) ELSE frame,
                        index, Tail(kwargs))

\* the index check without its lower bound
OutOfRange_above_only(index, frame) == index >= Len(frame)

\* the index check of edit_expense and delete_expense
OutOfRange(index, frame) == index < 0 \/ index >= Len(frame)

\* the keyword arguments of edit_budget, as the key/value pairs it iterates
BudgetEditInputs ==
  { << <<"amount", 5>> >>,
    << <<"end_date", None>>, <<"note", "x">> >>,
    << <<"category", "">>, <<"start_date", None>> >> }

\* the indices a caller of edit_budget / delete_budget passes
BudgetIndices == -1..MaxBudgets

BudgetColumns == {"category", "amount", "period", "start_date", "end_date"}

\* edit_budget: pd.to_datetime(value) if value else pd.NaT
BudgetDate(value) == IF value = None THEN NaT ELSE value

RECURSIVE apply_budget_kwargs(_, _, _)
\* the loop of edit_budget over kwargs.items()
apply_budget_kwargs(bframe, index, kwargs) ==
  IF kwargs = <<>> THEN bframe
  ELSE LET key   == Head(kwargs)[1]
           value == IF key \in {"start_date", "end_date"}
                    THEN BudgetDate(Head(kwargs)[2]) ELSE Head(kwargs)[2]
       IN  apply_budget_kwargs(
             IF key \in BudgetColumns THEN set_at(bframe, index, key, value) ELSE bframe,
             index, Tail(kwargs))

\* the index check of the budgets without its lower bound
BudgetOutOfRange_above_only(index, bframe) == index >= Len(bframe)

\* the index check of edit_budget and delete_budget
BudgetOutOfRange(index, bframe) == index < 0 \/ index >= Len(bframe)

InitSession ==
  /\ frontend \in {"browser", "terminal"}
  /\ today \in Todays
  /\ expenses_df = <<>> /\ budgets_df = <<>>
  /\ session_expenses_df = <<>> /\ session_budgets_df = <<>>
  /\ df = <<>> /\ budgets = <<>>
  /\ expenses_file = <<>> /\ budgets_file = <<>>
  /\ pc = "init" /\ args = <<>> /\ raised = ""
  /\ view = <<>>
  /\ alerts = <<>> /\ comparison = <<>> /\ spent = <<>>

\* what an operation leaves behind when it raises before it changes anything
Raises(op, exception) ==
  /\ pc' = op
  /\ raised' = exception
  /\ view' = <<>>
  /\ alerts' = <<>> /\ comparison' = <<>> /\ spent' = <<>>
  /\ UNCHANGED <<frontend, today, stores>>

\* browser: what a mutator leaves behind after _save_all()
BrowserSaved(op) ==
  /\ session_expenses_df' = expenses_df'
  /\ session_budgets_df' = budgets_df'
  /\ pc' = op
  /\ raised' = ""
  /\ view' = <<>>
  /\ alerts' = <<>> /\ comparison' = <<>> /\ spent' = <<>>
  /\ UNCHANGED <<frontend, today, df, budgets, expenses_file, budgets_file>>

\* terminal: a mutator of df that does not call _save_expenses()
TerminalUnsavedExpenses(op) ==
  /\ alerts' = check_budget_alerts(df', budgets, today)
  /\ spent' = check_spent(df', budgets, today)
  /\ comparison' = <<>>
  /\ pc' = op
  /\ raised' = ""
  /\ view' = <<>>
  /\ UNCHANGED <<frontend, today, budgets, budgets_file, expenses_file, expenses_df,
                 budgets_df, session_expenses_df, session_budgets_df>>

\* terminal: what a mutator of df leaves behind after _save_expenses() and
\* _check_budget_alerts()
TerminalSavedExpenses(op) ==
  /\ expenses_file' = save_expenses(df')
  /\ alerts' = check_budget_alerts(df', budgets, today)
  /\ spent' = check_spent(df', budgets, today)
  /\ comparison' = <<>>
  /\ pc' = op
  /\ raised' = ""
  /\ view' = <<>>
  /\ UNCHANGED <<frontend, today, budgets, budgets_file, expenses_df, budgets_df,
                 session_expenses_df, session_budgets_df>>

\* add_expense of either front-end
AddExpense ==
  \E e \in NewExpenses :
     \/ /\ frontend = "browser"
        /\ args' = <<e>>
        /\ Len(expenses_df) < MaxRows
        /\ expenses_df' = concat(expenses_df, e)
        /\ UNCHANGED budgets_df
        /\ BrowserSaved("add_expense")
     \/ /\ frontend = "terminal"
        /\ args' = <<e>>
        /\ Len(df) < MaxRows
        /\ df' = concat(df, e)
        /\ TerminalSavedExpenses("add_expense")

\* edit_expense of either front-end
EditExpense ==
  \E index \in Indices, kwargs \in EditInputs :
     \/ /\ frontend = "browser"
        /\ args' = <<index, kwargs>>
        /\ IF OutOfRange(index, expenses_df)
           THEN Raises("edit_expense", "IndexError")
           ELSE /\ expenses_df' = apply_kwargs(expenses_df, index, kwargs)
                /\ UNCHANGED budgets_df
                /\ BrowserSaved("edit_expense")
     \/ /\ frontend = "terminal"
        /\ args' = <<index, kwargs>>
        /\ IF OutOfRange(index, df)
           THEN Raises("edit_expense", "IndexError")
           ELSE /\ df' = apply_kwargs(df, index, kwargs)
                /\ TerminalSavedExpenses("edit_expense")

\* delete_expense of either front-end
DeleteExpense ==
  \E index \in Indices :
     \/ /\ frontend = "browser"
        /\ args' = <<index>>
        /\ IF OutOfRange(index, expenses_df)
           THEN Raises("delete_expense", "IndexError")
           ELSE /\ expenses_df' = drop_reset(expenses_df, index)
                /\ UNCHANGED budgets_df
                /\ BrowserSaved("delete_expense")
     \/ /\ frontend = "terminal"
        /\ args' = <<index>>
        /\ IF OutOfRange(index, df)
           THEN Raises("delete_expense", "IndexError")
           ELSE /\ df' = drop_reset(df, index)
                /\ TerminalSavedExpenses("delete_expense")

\* browser add_budget: a blank category is stored as 'overall', a missing
\* end date as NaT
AddBudget ==
  \E b \in NewBudgets :
     /\ frontend = "browser"
     /\ Len(budgets_df) < MaxBudgets
     /\ budgets_df' = concat(budgets_df,
          [idx |-> 0,
           category |-> IF b.category = "" THEN "overall" ELSE b.category,
           amount |-> b.amount, period |-> b.period,
           start_date |-> IF b.start_date = None THEN today ELSE b.start_date,
           end_date |-> IF b.end_date = None THEN NaT ELSE b.end_date])
     /\ UNCHANGED expenses_df
     /\ args' = <<b>>
     /\ BrowserSaved("add_budget")

\* terminal set_budget: appends, saves, then checks the alerts
SetBudget ==
  \E b \in NewBudgets :
     /\ frontend = "terminal"
     /\ Len(budgets) < MaxBudgets
     /\ budgets' = Append(budgets,
          [category |-> IF b.category = "" THEN "overall" ELSE b.category,
           amount |-> b.amount, period |-> b.period,
           start_date |-> IF b.start_date = None THEN today ELSE b.start_date,
           end_date |-> b.end_date])
     /\ budgets_file' = save_budgets(budgets')
     /\ alerts' = check_budget_alerts(df, budgets', today)
     /\ spent' = check_spent(df, budgets', today)
     /\ comparison' = <<>>
     /\ pc' = "set_budget"
     /\ args' = <<b>>
     /\ raised' = ""
     /\ view' = <<>>
     /\ UNCHANGED <<frontend, today, df, expenses_file, expenses_df, budgets_df,
                    session_expenses_df, session_budgets_df>>

\* browser edit_budget
EditBudget ==
  \E index \in BudgetIndices, kwargs \in BudgetEditInputs :
     /\ frontend = "browser"
     /\ args' = <<index, kwargs>>
     /\ IF BudgetOutOfRange(index, budgets_df)
        THEN Raises("edit_budget", "IndexError")
        ELSE /\ budgets_df' = apply_budget_kwargs(budgets_df, index, kwargs)
             /\ UNCHANGED expenses_df
             /\ BrowserSaved("edit_budget")

\* browser delete_budget
DeleteBudget ==
  \E index \in BudgetIndices :
     /\ frontend = "browser"
     /\ args' = <<index>>
     /\ IF BudgetOutOfRange(index, budgets_df)
        THEN Raises("delete_budget", "IndexError")
        ELSE /\ budgets_df' = drop_reset(budgets_df, index)
             /\ UNCHANGED expenses_df
             /\ BrowserSaved("delete_budget")

\* terminal: the program is started again, ExpenseManager.__init__ loads both files
Restart ==
  /\ frontend = "terminal"
  /\ df' = load_expenses(expenses_file)
  /\ budgets' = load_budgets(budgets_file)
  /\ pc' = "init"
  /\ args' = <<>>
  /\ raised' = ""
  /\ view' = <<>>
  /\ alerts' = <<>> /\ comparison' = <<>> /\ spent' = <<>>
  /\ UNCHANGED <<frontend, today, expenses_file, budgets_file, expenses_df, budgets_df,
                 session_expenses_df, session_budgets_df>>

\* ------------------------------------------------------------ view_expenses
\* the characters of the texts that are searched or ordered
Chars(s) ==
  CASE s = ""        -> <<>>
    [] s = "Food"    -> <<"F", "o", "o", "d">>
    [] s = "food"    -> <<"f", "o", "o", "d">>
    [] s = "Seafood" -> <<"S", "e", "a", "f", "o", "o", "d">>
    [] s = "oo"      -> <<"o", "o">>
    [] s = "f.o"     -> <<"f", ".", "o">>
    [] s = "gold"    -> <<"g", "o", "l", "d">>
    [] s = "Gold"    -> <<"G", "o", "l", "d">>
    [] s = "GOLD"    -> <<"G", "O", "L", "D">>

\* str.lower() of one character
lower(c) ==
  CASE c = "F" -> "f" [] c = "S" -> "s" [] c = "G" -> "g"
    [] c = "O" -> "o" [] c = "L" -> "l" [] c = "D" -> "d"
    [] OTHER -> c

\* ord() of one character
ord(c) ==
  CASE c = "." -> 46 [] c = "D" -> 68 [] c = "F" -> 70 [] c = "G" -> 71
    [] c = "L" -> 76 [] c = "O" -> 79 [] c = "S" -> 83
    [] c = "a" -> 97 [] c = "d" -> 100 [] c = "e" -> 101 [] c = "f" -> 102
    [] c = "g" -> 103 [] c = "l" -> 108 [] c = "o" -> 111

\* one character of a regular expression against one character of the text:
\* a dot matches every character
re_match(p, c, ignorecase) ==
  \/ p = "."
  \/ IF ignorecase THEN lower(p) = lower(c) ELSE p = c

\* re.search(pat, text): the pattern matches somewhere in the text
re_search(pat, text, ignorecase) ==
  \E k \in 0..(Len(text) - Len(pat)) :
     \A i \in 1..Len(pat) : re_match(pat[i], text[k + i], ignorecase)

\* Series.str.contains(value, case=..., na=False) for one cell: the value is a
\* regular expression, a missing cell gives False
str_contains(cell, value, ignorecase) ==
  /\ cell # "NaN"
  /\ re_search(Chars(value), Chars(cell), ignorecase)

\* browser view_expenses: df_view['category'].str.contains(value, case=False, na=False)
CategoryMatch(cell, value) == str_contains(cell, value, TRUE)

\* a frame column that holds nothing but missing values is a float column,
\* and the .str accessor of a float column raises AttributeError
NoStrAccessor(frame, col) ==
  /\ frame # <<>>
  /\ \A i \in 1..Len(frame) : frame[i][col] = "NaN"

\* browser view_expenses: one pass of the loop over filters.items()
browser_filter(rows, key, value) ==
  LET DateTest(r)     == Ge(r.date, value[1]) /\ Le(r.date, value[2])
      AmountTest(r)   == r.amount >= value[1] /\ r.amount <= value[2]
      CategoryTest(r) == CategoryMatch(r.category, value)
      PaymentTest(r)  == r.payment_method = value
      TagsTest(r)     == str_contains(r.tags, value, TRUE)
  IN  CASE key = "date_range" -> SelectSeq(rows, DateTest)
        [] key = "amount_range" -> SelectSeq(rows, AmountTest)
        [] key = "category" /\ value # "" -> SelectSeq(rows, CategoryTest)
        [] key = "payment_method" /\ value # "" -> SelectSeq(rows, PaymentTest)
        [] key = "tags" /\ value # "" -> SelectSeq(rows, TagsTest)
        [] OTHER -> rows

\* a filters loop that ends in an else branch which selects nothing
terminal_filter_strict(rows, key, value) ==
  LET DateTest(r)     == Ge(r.date, value[1]) /\ Le(r.date, value[2])
      AmountTest(r)   == r.amount >= value[1] /\ r.amount <= value[2]
      CategoryTest(r) == r.category = value
      PaymentTest(r)  == r.payment_method = value
      TagsTest(r)     == str_contains(r.tags, value, FALSE)
  IN  CASE key = "date_range" -> SelectSeq(rows, DateTest)
        [] key = "amount_range" -> SelectSeq(rows, AmountTest)
        [] key = "category" -> SelectSeq(rows, CategoryTest)
        [] key = "payment_method" -> SelectSeq(rows, PaymentTest)
        [] key = "tags" -> SelectSeq(rows, TagsTest)
        [] OTHER -> <<>>

\* terminal view_expenses: one pass of the loop over filters.items()
terminal_filter(rows, key, value) ==
  LET DateTest(r)     == Ge(r.date, value[1]) /\ Le(r.date, value[2])
      AmountTest(r)   == r.amount >= value[1] /\ r.amount <= value[2]
      CategoryTest(r) == r.category = value
      PaymentTest(r)  == r.payment_method = value
      TagsTest(r)     == str_contains(r.tags, value, FALSE)
  IN  CASE key = "date_range" -> SelectSeq(rows, DateTest)
        [] key = "amount_range" -> SelectSeq(rows, AmountTest)
        [] key = "category" -> SelectSeq(rows, CategoryTest)
        [] key = "payment_method" -> SelectSeq(rows, PaymentTest)
        [] key = "tags" -> SelectSeq(rows, TagsTest)
        [] OTHER -> rows

RECURSIVE apply_filters(_, _, _)
\* view_expenses: the loop over filters.items(), every pass narrows df_view
apply_filters(fe, rows, filters) ==
  IF filters = <<>> THEN rows
  ELSE apply_filters(fe,
         IF fe = "browser" THEN browser_filter(rows, Head(filters)[1], Head(filters)[2])
                           ELSE terminal_filter(rows, Head(filters)[1], Head(filters)[2]),
         Tail(filters))

\* view_expenses: the filters that use the .str accessor of a column
UsesStr(fe, filters, col) ==
  \E i \in 1..Len(filters) :
     /\ filters[i][1] = col
     /\ IF fe = "browser" THEN col \in {"category", "tags"} /\ filters[i][2] # ""
                          ELSE col = "tags"

\* lexicographic order of two texts by the code of their characters
TextLess(a, b) ==
  \E k \in 1..Len(b) :
     /\ \A i \in 1..(k - 1) : i <= Len(a) /\ a[i] = b[i]
     /\ k > Len(a) \/ ord(a[k]) < ord(b[k])

\* sort_values(by=key): is row a strictly before row b? Missing values go last
KeyLess(a, b, key) ==
  IF key \in {"amount", "date"} THEN a[key] < b[key]
  ELSE /\ a[key] # "NaN"
       /\ b[key] = "NaN" \/ TextLess(Chars(a[key]), Chars(b[key]))

\* df_view.sort_values(by=key): the rows in ascending order of the key with
\* their labels. The default kind is quicksort, which pandas documents as not
\* stable: rows with equal keys come in any order
sort_values(rows, key) ==
  LET n     == Len(rows)
      Perms == {f \in [1..n -> 1..n] : \A i, j \in 1..n : i # j => f[i] # f[j]}
      Asc   == {f \in Perms : \A i, j \in 1..n : i < j => ~KeyLess(rows[f[j]], rows[f[i]], key)}
  IN  {[i \in 1..n |-> rows[f[i]]] : f \in Asc}

\* view_expenses: the exception it raises, "" when it returns
view_raises(fe, frame, filters, sort_by) ==
  IF \E col \in {"category", "tags"} : UsesStr(fe, filters, col) /\ NoStrAccessor(frame, col)
  THEN "AttributeError"
  ELSE IF sort_by # "" /\ sort_by \notin ExpenseColumns THEN "KeyError"
  ELSE ""

\* view_expenses that orders by date when the caller names no sort key
view_expenses_date_order(fe, frame, filters, sort_by) ==
  sort_values(apply_filters(fe, frame, filters), IF sort_by = "" THEN "date" ELSE sort_by)

\* view_expenses: the frames it can return
view_expenses(fe, frame, filters, sort_by) ==
  LET rows == apply_filters(fe, frame, filters)
  IN  IF sort_by = "" THEN {rows} ELSE sort_values(rows, sort_by)

\* the expenses a store holds when it is viewed
ViewInputs ==
  { [idx |-> 0, amount |-> 1, date |-> 0, category |-> "Food", description |-> "beads",
     payment_method |-> "Cash", tags |-> "gold"],
    [idx |-> 0, amount |-> 2, date |-> 1, category |-> "food", description |-> "",
     payment_method |-> "Card", tags |-> "Gold"],
    [idx |-> 0, amount |-> 1, date |-> 1, category |-> "Seafood", description |-> "beads",
     payment_method |-> "Cash", tags |-> ""],
    [idx |-> 0, amount |-> 2, date |-> MaxDay, category |-> "Food", description |-> "beads",
     payment_method |-> "Card", tags |-> "gold"],
    [idx |-> 0, amount |-> 1, date |-> 1, category |-> "Food", description |-> "beads",
     payment_method |-> "Cash", tags |-> "gold"],
    [idx |-> 0, amount |-> 2, date |-> 0, category |-> "food", description |-> "",
     payment_method |-> "Cash", tags |-> ""] }

\* the entries of a filters dict
FilterEntries ==
  { <<"date_range", <<1, 1>> >>, <<"date_range", <<0, 1>> >>,
    <<"amount_range", <<2, 2>> >>, <<"amount_range", <<1, 2>> >>,
    <<"category", "food">>, <<"category", "f.o">>,
    <<"payment_method", "Cash">>,
    <<"tags", "GOLD">>,
    <<"note", "x">> }

\* the filters dicts of a call: no entry, one entry, or two entries with
\* different keys in either order
Filters ==
  {<<>>} \cup {<<e>> : e \in FilterEntries}
         \cup {p \in FilterEntries \X FilterEntries : p[1][1] # p[2][1]}

\* the sort_by of a call; "" is the call without sort_by (None and "" are
\* both falsy in 'if sort_by:')
SortKeys == {"", "date", "amount", "category", "note"}

\* a store that is viewed: the browser's session frame, the terminal's frame
\* as entered in this session or as loaded from expenses.csv
InitView ==
  /\ frontend \in {"browser", "terminal"}
  /\ today \in Todays
  /\ \E e \in SeqsUpTo(ViewInputs, MaxExpenses) :
        /\ expenses_df = IF frontend = "browser" THEN Relabel(e) ELSE <<>>
        /\ df \in IF frontend = "terminal"
                  THEN {Relabel(e), load_expenses(save_expenses(Relabel(e)))}
                  ELSE {<<>>}
  /\ session_expenses_df = expenses_df
  /\ expenses_file = save_expenses(df)
  /\ budgets_df = <<>> /\ session_budgets_df = <<>>
  /\ budgets = <<>> /\ budgets_file = <<>>
  /\ pc = "init" /\ args = <<>> /\ raised = ""
  /\ view = <<>>
  /\ alerts = <<>> /\ comparison = <<>> /\ spent = <<>>

\* view_expenses of either front-end
ViewExpenses ==
  \E filters \in Filters, sort_by \in SortKeys :
     LET frame == IF frontend = "browser" THEN expenses_df ELSE df
         error == view_raises(frontend, frame, filters, sort_by)
     IN  /\ pc' = "view_expenses"
         /\ args' = <<filters, sort_by>>
         /\ raised' = error
         /\ IF error = "" THEN view' \in view_expenses(frontend, frame, filters, sort_by)
                          ELSE view' = <<>>
         /\ alerts' = <<>> /\ comparison' = <<>> /\ spent' = <<>>
         /\ UNCHANGED <<frontend, today, stores>>

\* one call on every store: the call leaves the stores alone, so a second
\* call would start from the store the first one started from
NextView == pc = "init" /\ ViewExpenses

SpecView == InitView /\ [][NextView]_vars

\* ------------------------------------------------------- save and reload
\* the budgets of a terminal session that has set them itself: an end date or
\* None
SetBudgetInputs ==
  { b \in BudgetDictInputs : b.end_date # NaT /\ b.start_date = 0 /\ b.period = "monthly" }

\* a terminal session that has entered its expenses and set its budgets, and
\* has saved them after every entry
InitPersist ==
  /\ frontend = "terminal"
  /\ today \in Todays
  /\ \E e \in SeqsUpTo(ViewInputs, MaxExpenses) : df = Relabel(e)
  /\ budgets \in SeqsUpTo(SetBudgetInputs, MaxBudgets)
  /\ expenses_file = save_expenses(df)
  /\ budgets_file = save_budgets(budgets)
  /\ expenses_df = <<>> /\ session_expenses_df = <<>>
  /\ budgets_df = <<>> /\ session_budgets_df = <<>>
  /\ pc = "init" /\ args = <<>> /\ raised = ""
  /\ view = <<>>
  /\ alerts = <<>> /\ comparison = <<>> /\ spent = <<>>

NextPersist == Restart

SpecPersist == InitPersist /\ [][NextPersist]_vars

\* ------------------------------------------------ loading from any source
\* what can lie at the path of a CSV file: no file, a file of zero bytes, a
\* file pd.read_csv cannot tokenize, or a file it reads as a table with the
\* named columns (kind says what is wrong with the table, "table" when
\* nothing is). The rows of a table are written as save_expenses and
\* save_budgets write them
Source(kind, columns, rows) == [kind |-> kind, columns |-> columns, rows |-> rows]

ExpenseSources ==
  { Source(k, {}, <<>>) : k \in {"missing", "empty", "unparseable"} }
  \cup { Source("table", ExpenseColumns, save_expenses(Relabel(e))) :
           e \in SeqsUpTo(ViewInputs, 1) }
  \cup { Source("bad_date", ExpenseColumns, save_expenses(Relabel(<<e>>))) : e \in ViewInputs }
  \cup { Source("no_date_column", {"amount", "category"},
                << [amount |-> 1, category |-> "Food"] >>),
         Source("no_amount_column", ExpenseColumns \ {"amount"},
                << [date |-> 1, category |-> "Food", description |-> "beads",
                    payment_method |-> "Cash", tags |-> "gold"] >>) }

BudgetSources ==
  { Source(k, {}, <<>>) : k \in {"missing", "empty", "unparseable"} }
  \cup { Source("table", BudgetColumns, save_budgets(b)) : b \in SeqsUpTo(SetBudgetInputs, 1) }
  \cup { Source("bad_date", BudgetColumns, save_budgets(<<b>>)) : b \in SetBudgetInputs }
  \cup { Source("no_date_column", {"category", "amount"},
                << [category |-> "Food", amount |-> 3] >>),
         Source("no_amount_column", BudgetColumns \ {"amount"},
                << [category |-> "Food", period |-> "monthly", start_date |-> 0,
                    end_date |-> Empty] >>),
         Source("no_end_date_column", BudgetColumns \ {"end_date"},
                << [category |-> "Food", amount |-> 3, period |-> "monthly",
                    start_date |-> 0] >>) }

\* pd.read_csv(path): the exception it raises, "" when it returns a frame
read_csv(source) ==
  CASE source.kind = "missing"     -> "FileNotFoundError"
    [] source.kind = "empty"       -> "EmptyDataError"
    [] source.kind = "unparseable" -> "ParserError"
    [] OTHER -> ""

\* the body of the try block: read_csv, then df[date_column], then
\* pd.to_datetime of that column
LoadError(source, date_column) ==
  IF read_csv(source) # "" THEN read_csv(source)
  ELSE IF date_column \notin source.columns THEN "KeyError"
  ELSE IF source.kind = "bad_date" THEN "ValueError"
  ELSE ""

\* the except clauses of _load_expenses and _load_budgets
ExceptClauses == {"FileNotFoundError", "EmptyDataError", "Exception"}

\* an except clause catches the exceptions of its class, 'except Exception'
\* catches every one of them
Caught(error) == error \in ExceptClauses \/ "Exception" \in ExceptClauses

\* one row of the frame read_csv returns, text cells and dates as pandas reads them
ReadRow(row) ==
  [c \in DOMAIN row |->
     IF c \in {"date", "start_date", "end_date"} THEN ReadDate(row[c])
     ELSE IF c = "amount" THEN row[c]
     ELSE ReadText(row[c])]

\* terminal _load_expenses: the frame it returns and the exception that
\* escapes it
_load_expenses(source) ==
  LET error == LoadError(source, "date")
  IN  [store   |-> IF error # "" THEN <<>>
                   ELSE IF source.columns = ExpenseColumns THEN load_expenses(source.rows)
                   ELSE [i \in 1..Len(source.rows) |->
                           [c \in DOMAIN source.rows[i] \cup {"idx"} |->
                              IF c = "idx" THEN i - 1 ELSE ReadRow(source.rows[i])[c]]],
       escaped |-> IF error = "" \/ Caught(error) THEN "" ELSE error]

\* terminal _load_budgets: the list it returns and the exception that escapes
\* it; end_date is parsed only when the column is there
_load_budgets(source) ==
  LET error == LoadError(source, "start_date")
  IN  [store   |-> IF error # "" THEN <<>>
                   ELSE IF source.columns = BudgetColumns THEN load_budgets(source.rows)
                   ELSE [i \in 1..Len(source.rows) |-> ReadRow(source.rows[i])],
       escaped |-> IF error = "" \/ Caught(error) THEN "" ELSE error]

\* the terminal program before it starts: whatever lies at the two paths
InitLoad ==
  /\ frontend = "terminal"
  /\ today \in Todays
  /\ expenses_file \in ExpenseSources
  /\ budgets_file \in BudgetSources
  /\ df = <<>> /\ budgets = <<>>
  /\ expenses_df = <<>> /\ session_expenses_df = <<>>
  /\ budgets_df = <<>> /\ session_budgets_df = <<>>
  /\ pc = "init" /\ args = <<>> /\ raised = ""
  /\ view = <<>>
  /\ alerts = <<>> /\ comparison = <<>> /\ spent = <<>>

\* terminal ExpenseManager.__init__: loads the expenses, then the budgets
Construct ==
  LET e == _load_expenses(expenses_file)
      b == _load_budgets(budgets_file)
  IN  /\ pc = "init"
      /\ pc' = "__init__"
      /\ df' = e.store
      /\ budgets' = IF e.escaped = "" THEN b.store ELSE <<>>
      /\ raised' = IF e.escaped # "" THEN e.escaped ELSE b.escaped
      /\ args' = <<>>
      /\ view' = <<>>
      /\ alerts' = <<>> /\ comparison' = <<>> /\ spent' = <<>>
      /\ UNCHANGED <<frontend, today, expenses_file, budgets_file, expenses_df, budgets_df,
                     session_expenses_df, session_budgets_df>>

NextLoad == Construct

SpecLoad == InitLoad /\ [][NextLoad]_vars

\* the terminal program started on whatever lies at the two paths, and the
\* alerts checked on the stores it loaded
NextStart == Construct \/ (pc = "__init__" /\ raised = "" /\ CheckBudgetAlerts)

SpecStart == InitLoad /\ [][NextStart]_vars

\* ------------------------------------------- the browser Home page upload
\* the CSV files a user puts into the two uploaders, as their data rows
UploadedExpenses == { save_expenses(Relabel(<<e>>)) : e \in ViewInputs }

UploadedBudgets == { save_budgets(<<b>>) : b \in SetBudgetInputs }

\* an uploader without file; an uploader that holds a file is the pair of
\* the file and whether a script run has read it to its end
NoFile == <<>>

\* Home page: df = pd.read_csv(bud_upload) with both date columns parsed, as
\* a frame with the labels 0, 1, ...
upload_budgets(file) ==
  [i \in 1..Len(file) |->
     [idx |-> i - 1, category |-> ReadText(file[i].category), amount |-> file[i].amount,
      period |-> ReadText(file[i].period), start_date |-> ReadDate(file[i].start_date),
      end_date |-> ReadDate(file[i].end_date)]]

\* the browser session opens: empty session frames, empty uploaders, the
\* first script run is about to start. args holds the two uploaders
InitHome ==
  /\ frontend = "browser"
  /\ today \in Todays
  /\ expenses_df = <<>> /\ budgets_df = <<>>
  /\ session_expenses_df = <<>> /\ session_budgets_df = <<>>
  /\ df = <<>> /\ budgets = <<>>
  /\ expenses_file = <<>> /\ budgets_file = <<>>
  /\ pc = "script" /\ args = <<NoFile, NoFile>> /\ raised = ""
  /\ view = <<>>
  /\ alerts = <<>> /\ comparison = <<>> /\ spent = <<>>

\* a script run starts: manager = ExpenseManager() takes the session frames
StartRun ==
  /\ pc = "script"
  /\ expenses_df' = session_expenses_df
  /\ budgets_df' = session_budgets_df
  /\ pc' = "Home"
  /\ UNCHANGED <<frontend, today, session_expenses_df, session_budgets_df, df, budgets,
                 expenses_file, budgets_file, args, raised, alerts, comparison, spent, view>>

\* Home page, 'if exp_upload:' / 'if bud_upload:' with a file in the
\* uploader: the file is read into the session frame and st.rerun() starts
\* the script again
LoadUpload ==
  /\ pc = "Home"
  /\ \/ /\ args[1] # NoFile
        /\ session_expenses_df' = load_expenses(args[1][1])
        /\ args' = << <<args[1][1], TRUE>>, args[2] >>
        /\ UNCHANGED session_budgets_df
     \/ /\ args[1] = NoFile /\ args[2] # NoFile
        /\ session_budgets_df' = upload_budgets(args[2][1])
        /\ args' = << args[1], <<args[2][1], TRUE>> >>
        /\ UNCHANGED session_expenses_df
  /\ pc' = "script"
  /\ UNCHANGED <<frontend, today, expenses_df, budgets_df, df, budgets, expenses_file,
                 budgets_file, raised, alerts, comparison, spent, view>>

\* Home page: the uploader hands out the file it handed out in the run
\* before, read to its end, and pd.read_csv raises EmptyDataError; nothing
\* catches it and the run ends
ReadAgainFails ==
  /\ pc = "Home"
  /\ \/ args[1] # NoFile /\ args[1][2]
     \/ args[1] = NoFile /\ args[2] # NoFile /\ args[2][2]
  /\ raised' = "EmptyDataError"
  /\ pc' = "exception"
  /\ UNCHANGED <<frontend, today, stores, args, alerts, comparison, spent, view>>

\* Home page with both uploaders empty: the alerts and the summary are
\* rendered and the run ends
RenderHome ==
  /\ pc = "Home"
  /\ args[1] = NoFile /\ args[2] = NoFile
  /\ alerts' = get_alerts(expenses_df, budgets_df, today)
  /\ pc' = "rendered"
  /\ UNCHANGED <<frontend, today, stores, args, raised, comparison, spent, view>>

\* the user puts a file into an empty uploader; the widget starts a run
UserUploads ==
  /\ pc \in {"rendered", "exception"}
  /\ \/ \E f \in UploadedExpenses :
          args[1] = NoFile /\ args' = << <<f, FALSE>>, args[2] >>
     \/ \E f \in UploadedBudgets :
          args[2] = NoFile /\ args' = << args[1], <<f, FALSE>> >>
  /\ pc' = "script"
  /\ raised' = ""
  /\ alerts' = <<>>
  /\ UNCHANGED <<frontend, today, stores, comparison, spent, view>>

\* the user takes the file out of an uploader; the widget starts a run
UserClears ==
  /\ \/ args[1] # NoFile /\ args' = <<NoFile, args[2]>>
     \/ args[2] # NoFile /\ args' = <<args[1], NoFile>>
  /\ pc' = "script"
  /\ raised' = ""
  /\ alerts' = <<>>
  /\ UNCHANGED <<frontend, today, stores, comparison, spent, view>>

\* what the script does on its own
RunScript == StartRun \/ LoadUpload \/ ReadAgainFails \/ RenderHome

NextHome == RunScript \/ UserUploads \/ UserClears

SpecHome == InitHome /\ [][NextHome]_vars

\* a started script run goes on; the user need not do anything
SpecHomeFair == SpecHome /\ WF_vars(RunScript)

Next ==
  \/ AddExpense \/ EditExpense \/ DeleteExpense
  \/ AddBudget \/ SetBudget \/ Restart
  \/ EditBudget \/ DeleteBudget
  \/ GetAlerts \/ GetBudgetVsActual

Spec == InitSession /\ [][Next]_vars

\* a session that works on the Expense Store only: the Manage Expenses pages
\* of the browser, menu entries 1 to 3 of the terminal and its restart
NextExpenses == AddExpense \/ EditExpense \/ DeleteExpense \/ Restart

SpecExpenses == InitSession /\ [][NextExpenses]_vars

\* a session that works on the Budget Store: the Budget Management page and
\* the methods behind it, menu entry 4 of the terminal
NextBudgets == AddBudget \/ SetBudget \/ EditBudget \/ DeleteBudget

\* the Expense Store such a session finds: nothing, or an expense entered
\* before (saved, in the terminal, to expenses.csv)
EnteredExpenses == {<<>>} \cup {Relabel(<<e>>) : e \in NewExpenses}

InitBudgets ==
  /\ frontend \in {"browser", "terminal"}
  /\ today \in Todays
  /\ \E e \in EnteredExpenses :
        /\ expenses_df = IF frontend = "browser" THEN e ELSE <<>>
        /\ df          = IF frontend = "terminal" THEN e ELSE <<>>
  /\ session_expenses_df = expenses_df
  /\ expenses_file = save_expenses(df)
  /\ budgets_df = <<>> /\ session_budgets_df = <<>>
  /\ budgets = <<>> /\ budgets_file = <<>>
  /\ pc = "init" /\ args = <<>> /\ raised = ""
  /\ view = <<>>
  /\ alerts = <<>> /\ comparison = <<>> /\ spent = <<>>

SpecBudgets == InitBudgets /\ [][NextBudgets]_vars

\* a session that changes both stores, with the Expense Store kept at
\* MaxLabelled rows
NextStores ==
  \/ (Len(expenses_df) < MaxLabelled /\ Len(df) < MaxLabelled /\ AddExpense)
  \/ EditExpense \/ DeleteExpense
  \/ AddBudget \/ SetBudget \/ EditBudget \/ DeleteBudget
  \/ Restart

SpecStores == InitSession /\ [][NextStores]_vars

\* ------------------------------------------------------ the terminal menu
\* what a user types at a validated prompt, read as a number
PromptInputs == -1..MaxRows

\* main: the validator of the first validated prompt of a menu choice:
\* "Amount: " of choice 1, "Index to edit: " of choice 2, "Index to delete: "
\* of choice 3
Accepts(choice, x) ==
  IF choice = "1" THEN x > 0 ELSE 0 <= x /\ x < Len(df)

\* main is at "Enter choice: " unless validate_input is waiting
AtMenu == pc # "validate_input"

InitMenu == InitSession /\ frontend = "terminal"

\* main: the user enters choice 1, 2 or 3 and validate_input prompts
Choose ==
  \E choice \in {"1", "2", "3"} :
     /\ AtMenu
     /\ pc' = "validate_input"
     /\ args' = <<choice, None>>
     /\ raised' = ""
     /\ view' = <<>>
     /\ alerts' = <<>> /\ comparison' = <<>> /\ spent' = <<>>
     /\ UNCHANGED <<frontend, today, stores>>

\* validate_input: the validator turns the input down, ValueError is caught,
\* "Invalid input. Try again." is printed and the prompt comes again
TryAgain ==
  \E x \in PromptInputs :
     /\ pc = "validate_input"
     /\ ~Accepts(args[1], x)
     /\ args' = <<args[1], x>>
     /\ UNCHANGED <<frontend, today, stores, pc, raised, alerts, comparison, spent, view>>

\* validate_input returns the input; main asks for the other fields, calls
\* the manager and comes back to the menu
Accepted ==
  \E x \in PromptInputs :
     /\ pc = "validate_input"
     /\ Accepts(args[1], x)
     /\ \/ args[1] = "1" /\ Len(df) < MaxLabelled /\ AddExpense
        \/ args[1] = "2" /\ EditExpense /\ args'[1] = x
                         /\ \A k \in 1..Len(args'[2]) : args'[2][k][1] \in ExpenseColumns
        \/ args[1] = "3" /\ DeleteExpense /\ args'[1] = x

NextMenu == Choose \/ TryAgain \/ Accepted

SpecMenu == InitMenu /\ [][NextMenu]_vars

\* ================================================================== claims
\* the two stores of the running front-end
Expenses == IF frontend = "browser" THEN expenses_df ELSE df
Budgets  == IF frontend = "browser" THEN budgets_df ELSE budgets

AlertsEvaluated  == pc \in {"get_alerts", "check_budget_alerts"}
TableEvaluated   == pc = "get_budget_vs_actual"

\* the evaluation window of a budget as specified: through end_date when
\* there is one, through today when there is none
SpecEnd(b) == IF b.end_date \in Dates THEN b.end_date ELSE today

\* the expenses a budget selects as specified
SpecSelected(b, frame) ==
  LET Test(r) == /\ b.start_date <= r.date
                 /\ r.date <= SpecEnd(b)
                 /\ (b.category = "overall" \/ r.category = b.category)
  IN  SelectSeq(frame, Test)

SpecSpent(b, frame) == SumAmount(SpecSelected(b, frame))

\* an active budget as specified
SpecActive(b) ==
  /\ b.period = "monthly"
  /\ b.start_date <= today
  /\ (b.end_date \notin Dates \/ b.end_date >= today)

\* actual / budget * 100 to one decimal, in tenths of a percent (budget > 0)
SpecPercent(actual, budget) == (2000 * actual + budget) \div (2 * budget)

\* the budget record a row of the comparison came from
BudgetOf(row) == budgets_df[row.src + 1]

\* C1: alert evaluation emits, in budget-store order, exactly one alert for
\* every budget whose spent is strictly greater than its amount and none for
\* any other budget (spent equal to the amount gives no alert).
C1_AlertIffStrictlyOverspent ==
  AlertsEvaluated =>
    /\ Len(spent) = Len(Budgets)
    /\ alerts = Flatten([i \in 1..Len(Budgets) |->
                  IF spent[i] > Budgets[i].amount
                  THEN << [category |-> Budgets[i].category, budget |-> Budgets[i].amount,
                           spent |-> spent[i]] >>
                  ELSE <<>>])

\* C1 witness: two budgets were evaluated, the first spent exactly its amount
\* and got no alert, the second spent more and got the only alert
C1_Witness ==
  /\ AlertsEvaluated
  /\ Len(Budgets) = 2
  /\ Budgets[1].amount > 0 /\ spent[1] = Budgets[1].amount
  /\ spent[2] > Budgets[2].amount
  /\ Len(alerts) = 1

\* C2: the spent that alert evaluation uses for a budget is the sum of the
\* amounts of exactly the expenses dated in the budget's inclusive window
\* whose category equals the budget's (every category for "overall").
C2_SpentIsWindowCategorySum ==
  AlertsEvaluated =>
    \A i \in 1..Len(Budgets) : spent[i] = SpecSpent(Budgets[i], Expenses)

\* C3: the row of an active monthly "overall" budget is labelled "Overall" and
\* its actual is the sum of every expense in the budget's window.
C3_OverallRowActual ==
  TableEvaluated =>
    \A k \in 1..Len(comparison) :
       BudgetOf(comparison[k]).category = "overall" =>
          /\ comparison[k].category = "Overall"
          /\ comparison[k].actual = SpecSpent(BudgetOf(comparison[k]), expenses_df)

\* C4: a row whose budget amount is 0 has percentage 0 whatever its actual.
C4_ZeroBudgetPercentage ==
  TableEvaluated =>
    \A k \in 1..Len(comparison) :
       comparison[k].budget = 0 => comparison[k].percentage = 0

\* C5: with both stores non-empty the comparison has exactly as many rows as
\* there are active monthly budget records.
C5_OneRowPerActiveBudget ==
  (TableEvaluated /\ expenses_df # <<>> /\ budgets_df # <<>>) =>
    Len(comparison) = Cardinality({i \in 1..Len(budgets_df) : SpecActive(budgets_df[i])})

\* C6 as claimed: the comparison has a row for a budget record exactly when
\* the record is monthly, has started and has not ended.
C6_RowIffActive ==
  TableEvaluated =>
    \A i \in 1..Len(budgets_df) :
       (\E k \in 1..Len(comparison) : comparison[k].src = budgets_df[i].idx)
         <=> SpecActive(budgets_df[i])

\* C6 as amended: with a non-empty Expense Store the comparison has a row for
\* a budget record exactly when the record is monthly, has started and has not
\* ended; with an empty Expense Store the comparison has no rows.
C6_RowIffActiveAndExpenses ==
  TableEvaluated =>
    IF expenses_df = <<>>
    THEN comparison = <<>>
    ELSE \A i \in 1..Len(budgets_df) :
            (\E k \in 1..Len(comparison) : comparison[k].src = budgets_df[i].idx)
              <=> SpecActive(budgets_df[i])

\* C6 witness: of two monthly budgets the one that has started has the only
\* row, the one that starts after today has none
C6_Witness ==
  /\ TableEvaluated
  /\ expenses_df # <<>>
  /\ Len(budgets_df) = 2
  /\ budgets_df[1].period = "monthly" /\ budgets_df[1].start_date = today
  /\ budgets_df[2].period = "monthly" /\ budgets_df[2].start_date > today
  /\ Len(comparison) = 1
  /\ comparison[1].src = budgets_df[1].idx

\* C7: the row of an active monthly budget with a specific category and a
\* positive amount shows the budget amount, the sum of the window's expenses
\* of that category, their difference and their ratio in percent to one decimal.
C7_CategoryRowValues ==
  TableEvaluated =>
    \A k \in 1..Len(comparison) :
       LET b == BudgetOf(comparison[k])
       IN  (b.category # "overall" /\ b.amount > 0) =>
             /\ comparison[k].budget = b.amount
             /\ comparison[k].actual = SpecSpent(b, expenses_df)
             /\ comparison[k].difference = comparison[k].actual - comparison[k].budget
             /\ comparison[k].percentage = SpecPercent(comparison[k].actual, comparison[k].budget)

\* C8: whatever its period, a budget is alerted exactly when the expenses
\* dated from its start_date through its end_date (through today when it has
\* none), both ends included, sum to more than its amount.
C8_WindowDecidesAlert ==
  AlertsEvaluated =>
    alerts = Flatten([i \in 1..Len(Budgets) |->
               IF SpecSpent(Budgets[i], Expenses) > Budgets[i].amount
               THEN << [category |-> Budgets[i].category, budget |-> Budgets[i].amount,
                        spent |-> SpecSpent(Budgets[i], Expenses)] >>
               ELSE <<>>])

\* the fields of an expense row, without its label
Fields(r) == [c \in ExpenseColumns |-> r[c]]

\* C9: delete_expense(i) with 0 <= i < length returns normally and removes
\* exactly the record at position i: the store is one shorter, the records
\* before i stay where they were, every record after i moves down by one, and
\* the labels are again 0, 1, ... so that index i now names the old i+1.
C9_DeleteCompactsIndices ==
  [][ (pc' = "delete_expense" /\ args'[1] >= 0 /\ args'[1] < Len(Expenses)) =>
        /\ raised' = ""
        /\ Len(Expenses') = Len(Expenses) - 1
        /\ \A j \in 1..Len(Expenses') :
              /\ Fields(Expenses'[j]) =
                   Fields(IF j - 1 < args'[1] THEN Expenses[j] ELSE Expenses[j + 1])
              /\ Expenses'[j].idx = j - 1 ]_vars

\* C9 witness: the middle one of three records was deleted, the two that are
\* left differ
C9_Witness ==
  /\ pc = "delete_expense" /\ raised = ""
  /\ args = <<1>>
  /\ Len(Expenses) = 2
  /\ Fields(Expenses[1]) # Fields(Expenses[2])

\* C10: edit_expense and delete_expense called with an index below 0 or at or
\* above the length raise IndexError and leave the store and its persisted
\* copy as they were.
C10_OutOfRangeRaises ==
  [][ (pc' \in {"edit_expense", "delete_expense"}
         /\ (args'[1] < 0 \/ args'[1] >= Len(Expenses))) =>
        /\ raised' = "IndexError"
        /\ UNCHANGED stores ]_vars

\* C10 witness: a delete at index = length of a store of two records raised
C10_Witness ==
  /\ pc = "delete_expense" /\ raised = "IndexError"
  /\ Len(Expenses) = 2
  /\ args = <<2>>

\* C10 witness on the lower side: an edit at index -1 raised
C10_WitnessNegative ==
  /\ pc = "edit_expense" /\ raised = "IndexError"
  /\ Len(Expenses) > 0
  /\ args[1] = -1

\* the keyword arguments of a call that name the field col, in call order
Supplied(kwargs, col) ==
  LET Names(kv) == kv[1] = col
  IN  SelectSeq(kwargs, Names)

\* the fields of an expense record as the spec lists them
RecordFields == {"amount", "date", "category", "description", "payment_method", "tags"}

\* C11: edit_expense(i, fields) with a valid index returns, keeps the number,
\* the order and the labels of the records, leaves every other record as it
\* was, and in the record at i puts the supplied value in every supplied
\* field and keeps every field that was not supplied; a supplied name that is
\* no record field changes nothing.
C11_EditOverwritesSuppliedOnly ==
  [][ (pc' = "edit_expense" /\ args'[1] >= 0 /\ args'[1] < Len(Expenses)) =>
        /\ raised' = ""
        /\ Len(Expenses') = Len(Expenses)
        /\ \A j \in 1..Len(Expenses) :
              /\ Expenses'[j].idx = Expenses[j].idx
              /\ DOMAIN Expenses'[j] = DOMAIN Expenses[j]
              /\ j - 1 # args'[1] => Expenses'[j] = Expenses[j]
              /\ j - 1 = args'[1] =>
                    \A col \in RecordFields :
                       LET given == Supplied(args'[2], col)
                       IN  Expenses'[j][col] =
                             IF given = <<>> THEN Expenses[j][col]
                             ELSE given[Len(given)][2] ]_vars

\* C11 witness: the first of two records was edited with a name that is no
\* field and a new amount; it has the new amount, the second kept the old one
C11_Witness ==
  /\ pc = "edit_expense" /\ raised = ""
  /\ args = <<0, << <<"note", "x">>, <<"amount", -1>> >> >>
  /\ Len(Expenses) = 2
  /\ Expenses[1].amount = -1 /\ Expenses[2].amount = 1
  /\ Expenses[1].category = "Food"

\* C12: add_expense returns; afterwards the store holds the records it held,
\* each at its old position with its old label, followed by the new record
\* under the label old_length, so that the length grew by exactly one.
C12_AddAppends ==
  [][ pc' = "add_expense" =>
        /\ raised' = ""
        /\ Len(Expenses') = Len(Expenses) + 1
        /\ \A j \in 1..Len(Expenses) : Expenses'[j] = Expenses[j]
        /\ Fields(Expenses'[Len(Expenses) + 1]) = Fields(args'[1])
        /\ Expenses'[Len(Expenses) + 1].idx = Len(Expenses) ]_vars

\* C12 witness: a third record was added behind two others, the first of
\* which differs from it
C12_Witness ==
  /\ pc = "add_expense" /\ raised = ""
  /\ Len(Expenses) = 3
  /\ Fields(Expenses[3]) = Fields(args[1])
  /\ Fields(Expenses[1]) # Fields(Expenses[3])
  /\ Expenses[3].idx = 2

\* the operations on the Budget Store
BudgetOps == {"add_budget", "set_budget", "edit_budget", "delete_budget"}

\* C13: the Budget Store obeys the CRUD contract of the Expense Store.
\* edit_budget and delete_budget with an index below 0 or at or above the
\* length raise IndexError and leave every store as it was; delete_budget
\* with a valid index removes that budget, keeps the ones before it and moves
\* every later one down by one label; edit_budget with a valid index puts the
\* supplied values (a missing date as NaT) in the supplied fields of that
\* budget and changes nothing else; add_budget and set_budget put the new
\* budget behind the ones that were there; none of them changes the Expense
\* Store.
C13_BudgetStoreContract ==
  [][ pc' \in BudgetOps =>
        LET index == args'[1]
            valid == index >= 0 /\ index < Len(Budgets)
        IN
        /\ <<expenses_df, session_expenses_df, df, expenses_file>>' =
             <<expenses_df, session_expenses_df, df, expenses_file>>
        /\ (pc' \in {"edit_budget", "delete_budget"} /\ ~valid) =>
              (raised' = "IndexError" /\ UNCHANGED stores)
        /\ (pc' = "delete_budget" /\ valid) =>
              /\ raised' = ""
              /\ Len(Budgets') = Len(Budgets) - 1
              /\ \A j \in 1..Len(Budgets') :
                    /\ [Budgets'[j] EXCEPT !.idx = 0] =
                         [(IF j - 1 < index THEN Budgets[j] ELSE Budgets[j + 1]) EXCEPT !.idx = 0]
                    /\ Budgets'[j].idx = j - 1
        /\ (pc' = "edit_budget" /\ valid) =>
              /\ raised' = ""
              /\ Len(Budgets') = Len(Budgets)
              /\ \A j \in 1..Len(Budgets) :
                    /\ Budgets'[j].idx = Budgets[j].idx
                    /\ DOMAIN Budgets'[j] = DOMAIN Budgets[j]
                    /\ j - 1 # index => Budgets'[j] = Budgets[j]
                    /\ j - 1 = index =>
                          \A col \in BudgetColumns :
                             LET given == Supplied(args'[2], col)
                                 value == given[Len(given)][2]
                             IN  Budgets'[j][col] =
                                   IF given = <<>> THEN Budgets[j][col]
                                   ELSE IF col \in {"start_date", "end_date"} /\ value = None
                                        THEN NaT ELSE value
        /\ pc' \in {"add_budget", "set_budget"} =>
              /\ raised' = ""
              /\ Len(Budgets') = Len(Budgets) + 1
              /\ \A j \in 1..Len(Budgets) : Budgets'[j] = Budgets[j]
              /\ Budgets'[Len(Budgets) + 1].amount = args'[1].amount
              /\ Budgets'[Len(Budgets) + 1].period = args'[1].period
              /\ frontend = "browser" => Budgets'[Len(Budgets) + 1].idx = Len(Budgets) ]_vars

\* C13 witness: with an expense in the store, the first of two budgets was
\* deleted and the budget that was second is now the only one, at label 0
C13_Witness ==
  /\ pc = "delete_budget" /\ raised = "" /\ args = <<0>>
  /\ Len(expenses_df) = 1
  /\ Len(budgets_df) = 1
  /\ budgets_df[1].category = "overall" /\ budgets_df[1].idx = 0

\* C13 witness for edit_budget: the second of two budgets got a new category
\* and start date, the first still has the category it was added with
C13_WitnessEdit ==
  /\ pc = "edit_budget" /\ raised = ""
  /\ args = <<1, << <<"category", "">>, <<"start_date", None>> >> >>
  /\ Len(budgets_df) = 2
  /\ budgets_df[2].category = "" /\ budgets_df[2].start_date = NaT
  /\ budgets_df[1].category = "Food"

\* C13 witness for the error: delete_budget at index -1 raised
C13_WitnessError ==
  /\ pc = "delete_budget" /\ raised = "IndexError" /\ args = <<-1>>
  /\ Len(budgets_df) = 2

\* C14: view_expenses never changes a store, whatever the filters and the
\* sort key, whether it returns or raises; called without filters and without
\* sort key it returns exactly the rows of the store, in store order, under
\* their labels.
C14_ViewLeavesStore ==
  [][ pc' = "view_expenses" =>
        /\ UNCHANGED stores
        /\ args' = << <<>>, "" >> => (raised' = "" /\ view' = Expenses) ]_vars

\* C14 witness: a store of two records, the later-dated one first, was viewed
\* without filters and without sort key and came back as it is
C14_Witness ==
  /\ pc = "view_expenses" /\ raised = ""
  /\ args = << <<>>, "" >>
  /\ Len(Expenses) = 2 /\ Expenses[1].date > Expenses[2].date
  /\ view = Expenses

\* C14 witness: a filtered and sorted view returned fewer rows than the
\* store, which still holds both of its records
C14_WitnessFiltered ==
  /\ pc = "view_expenses" /\ raised = ""
  /\ Len(args[1]) = 2 /\ args[2] = "amount"
  /\ Len(Expenses) = 2 /\ Len(view) = 1

\* the text value is a substring of the text cell when letter case is
\* ignored; a missing cell contains nothing
ContainsIgnoringCase(cell, value) ==
  /\ cell # "NaN"
  /\ LET t == Chars(cell)
         v == Chars(value)
     IN  \E k \in 0..(Len(t) - Len(v)) :
            \A i \in 1..Len(v) : lower(v[i]) = lower(t[k + i])

\* C15: in both front-ends a view with only a category filter returns exactly
\* the records whose category contains the filter text as a substring,
\* ignoring letter case, and a view with only a tags filter returns exactly
\* the records whose tags contain the filter text the same way.
C15_TextFiltersIgnoreCase ==
  (/\ pc = "view_expenses"
   /\ Len(args[1]) = 1 /\ args[1][1][1] \in {"category", "tags"}
   /\ args[2] = "") =>
     LET key      == args[1][1][1]
         value    == args[1][1][2]
         Test(r)  == ContainsIgnoringCase(r[key], value)
     IN  raised = "" /\ view = SelectSeq(Expenses, Test)

\* a record satisfies one entry of the filters: a date or an amount inside the
\* range, both ends included, the payment method named, or, for a text
\* filter, being a row of the view with that entry alone; an entry that is no
\* filter is satisfied by every record
Satisfies(r, e) ==
  CASE e[1] = "date_range"     -> e[2][1] <= r.date /\ r.date <= e[2][2]
    [] e[1] = "amount_range"   -> e[2][1] <= r.amount /\ r.amount <= e[2][2]
    [] e[1] = "payment_method" -> r.payment_method = e[2]
    [] e[1] \in {"category", "tags"} ->
         LET alone == apply_filters(frontend, Expenses, <<e>>)
         IN  \E i \in 1..Len(alone) : alone[i] = r
    [] OTHER -> TRUE

\* C16: a view with several filters, sorted by a record field or not at all,
\* returns exactly the records of the store that satisfy every one of the
\* filters, each once, whatever the order of the filter keys; a date equal to
\* the start or the end of the date range and an amount equal to the minimum
\* or the maximum of the amount range satisfy the range.
C16_FiltersAreConjunction ==
  (pc = "view_expenses" /\ Len(args[1]) >= 2 /\ args[2] \in ExpenseColumns \cup {""}) =>
     LET filters == args[1]
         All(r)  == \A i \in 1..Len(filters) : Satisfies(r, filters[i])
         chosen  == SelectSeq(Expenses, All)
     IN  /\ raised = ""
         /\ Len(view) = Len(chosen)
         /\ {view[i] : i \in 1..Len(view)} = {chosen[i] : i \in 1..Len(chosen)}

\* the keys view_expenses knows as filters
KnownFilters == {"date_range", "amount_range", "category", "payment_method", "tags"}

\* C17 as claimed: a view called with a filter key that is no known filter,
\* or with a sort key that is no record field, behaves as the call without
\* that key:
\* the key raises no error of its own and the rows and their order are those
\* of the call without it.
C17_UnknownKeysIgnored ==
  (/\ pc = "view_expenses"
   /\ \/ \E i \in 1..Len(args[1]) : args[1][i][1] \notin KnownFilters
      \/ args[2] \notin ExpenseColumns \cup {""}) =>
     LET Known(e) == e[1] \in KnownFilters
         filters  == SelectSeq(args[1], Known)
         sort_by  == IF args[2] \in ExpenseColumns THEN args[2] ELSE ""
     IN  /\ raised = view_raises(frontend, Expenses, filters, sort_by)
         /\ raised = "" => view \in view_expenses(frontend, Expenses, filters, sort_by)

\* C17 as amended: a filter key that is no known filter is ignored, the call
\* raises and returns what the call without that key raises and returns; a
\* sort key that is no record field is not ignored, the call raises (KeyError
\* when the filters raised nothing) and returns no rows.
C17_UnknownFilterKeyIgnored ==
  (/\ pc = "view_expenses"
   /\ \/ \E i \in 1..Len(args[1]) : args[1][i][1] \notin KnownFilters
      \/ args[2] \notin ExpenseColumns \cup {""}) =>
     LET Known(e) == e[1] \in KnownFilters
         filters  == SelectSeq(args[1], Known)
     IN  IF args[2] \in ExpenseColumns \cup {""}
         THEN /\ raised = view_raises(frontend, Expenses, filters, args[2])
              /\ raised = "" => view \in view_expenses(frontend, Expenses, filters, args[2])
         ELSE /\ raised = IF view_raises(frontend, Expenses, filters, "") # ""
                          THEN view_raises(frontend, Expenses, filters, "") ELSE "KeyError"
              /\ view = <<>>

\* C17 witness: a call with the unknown filter key note and an amount range
\* returned one of the two records of the store
C17_Witness ==
  /\ pc = "view_expenses" /\ raised = ""
  /\ args = << << <<"note", "x">>, <<"amount_range", <<2, 2>> >> >>, "" >>
  /\ Len(Expenses) = 2 /\ Len(view) = 1 /\ view[1].amount = 2

\* C17 witness for the sort key: a call sorted by note raised KeyError on a
\* store of two records
C17_WitnessSort ==
  /\ pc = "view_expenses" /\ raised = "KeyError"
  /\ args = << <<>>, "note" >>
  /\ Len(Expenses) = 2

\* C18: loading what was saved gives the stores that were in memory: when the
\* terminal starts again, _load_expenses and _load_budgets reproduce every
\* expense and every budget field for field and in the same order, empty
\* texts and absent end dates included.
C18_SaveLoadRoundTrip ==
  [][ pc' = "init" => (df' = df /\ budgets' = budgets) ]_vars

\* C19: whatever was added, edited and deleted through either front-end,
\* every expense record of the store has an amount of 0 or more.
C19_AmountsNotNegative ==
  \A i \in 1..Len(Expenses) : Expenses[i].amount >= 0

\* a source that is missing, empty or malformed
Unusable(source) == source.kind \notin {"table", "no_end_date_column"}

\* C20: constructing the manager never fails: no exception escapes the two
\* load methods, and a store whose source is missing, empty or malformed is
\* empty afterwards.
C20_LoadFailureGivesEmptyStore ==
  pc = "__init__" =>
    /\ raised = ""
    /\ Unusable(expenses_file) => df = <<>>
    /\ Unusable(budgets_file) => budgets = <<>>

EvalOps == {"get_alerts", "check_budget_alerts", "get_budget_vs_actual"}

\* C21: an evaluation (get_alerts, _check_budget_alerts, get_budget_vs_actual)
\* leaves every store as it was and raises nothing, also on budgets loaded
\* from a source without end_date column; with an empty Expense Store or an
\* empty Budget Store it gives no alert and no table row.
C21_EvaluationPureAndTotal ==
  [][ (pc' \in EvalOps /\ ~Unusable(expenses_file) /\ ~Unusable(budgets_file)) =>
        /\ UNCHANGED stores
        /\ raised' = ""
        /\ (Expenses = <<>> \/ Budgets = <<>>) => (alerts' = <<>> /\ comparison' = <<>>) ]_vars

\* C22: the rows view_expenses returns for a sort_by are in ascending order
\* of that field, and rows with equal values of it keep the order they had
\* in the store.
C22_SortAscendingAndStable ==
  (pc = "view_expenses" /\ raised = "" /\ args[2] # "") =>
    \A i, j \in 1..Len(view) :
       i < j => /\ ~KeyLess(view[j], view[i], args[2])
                /\ ~KeyLess(view[i], view[j], args[2]) => view[i].idx < view[j].idx

\* terminal: is budget i of the list alerted on these expenses today?
Alerted(frame, blist, i) == Overspent(check_spent(frame, blist, today)[i], blist[i].amount)

\* C23: a terminal budget set without end date gets the same alert outcome
\* from _check_budget_alerts before the program is closed and after it has
\* started again and loaded the stores from the CSV files.
C23_OpenEndedSameAfterReload ==
  [][ pc' = "init" =>
        \A i \in 1..Len(budgets) :
           budgets[i].end_date = None =>
             (Alerted(df, budgets, i) <=> Alerted(df', budgets', i)) ]_vars

\* browser: does get_alerts emit an alert for budget k of budgets_df?
AlertEmitted(k) ==
  Overspent(alert_spent(expenses_df, budgets_df, today)[k], budgets_df[k].amount)

\* the table get_budget_vs_actual returned shows budget k as overspent
TableOverspent(k) ==
  \E r \in 1..Len(comparison) :
     comparison[r].src = budgets_df[k].idx /\ comparison[r].difference > 0

\* C24: for every active monthly budget, the budget-vs-actual table has a
\* positive difference in the budget's row exactly when get_alerts emits an
\* alert for the budget on the same stores.
C24_TableAgreesWithAlerts ==
  pc = "get_budget_vs_actual" =>
    \A k \in 1..Len(budgets_df) :
       IsActive(budgets_df[k], today) => (TableOverspent(k) <=> AlertEmitted(k))

\* the labels of a frame are 0, 1, ..., length-1 in order
Labelled(frame) == \A i \in 1..Len(frame) : frame[i].idx = i - 1

\* C25: whatever add, edit and delete operations ran, failed ones included,
\* the labels of the Expense Store and of the browser's Budget Store are
\* 0, 1, ..., length-1 in order.
C25_LabelsAreRange ==
  /\ Labelled(Expenses)
  /\ frontend = "browser" => Labelled(budgets_df)

\* C25 witness: the first of two budgets was deleted, the one that is left
\* has the label 0; the Expense Store holds two records
C25_Witness ==
  /\ pc = "delete_budget" /\ raised = "" /\ args = <<0>>
  /\ Len(budgets_df) = 1 /\ budgets_df[1].idx = 0
  /\ Len(expenses_df) = 2 /\ expenses_df[2].idx = 1

MutatingOps ==
  {"add_expense", "edit_expense", "delete_expense",
   "add_budget", "edit_budget", "delete_budget", "set_budget"}

\* C26: after every mutating operation that returned, the persisted copy
\* holds the stores of the manager: the session-state frames are the
\* browser's frames, the two CSV files are what the terminal's stores are
\* written as, also when the operation printed an overspend alert.
C26_PersistedIsMemory ==
  (pc \in MutatingOps /\ raised = "") =>
    IF frontend = "browser"
    THEN session_expenses_df = expenses_df /\ session_budgets_df = budgets_df
    ELSE expenses_file = save_expenses(df) /\ budgets_file = save_budgets(budgets)

\* C26 witness: the terminal added a second expense, the alert of a budget
\* was printed, and expenses.csv holds both expenses
C26_Witness ==
  /\ frontend = "terminal" /\ pc = "add_expense" /\ raised = ""
  /\ alerts # <<>>
  /\ Len(df) = 2 /\ Len(expenses_file) = 2
  /\ expenses_file[2].amount = df[2].amount

\* C27: on the same expense records, budget records and current date, the
\* terminal's _check_budget_alerts prints an alert for exactly the budgets
\* the browser's get_alerts returns one for.
C27_FrontEndsAgreeOnAlerts ==
  pc = "check_budget_alerts" => alerts = get_alerts(df, budgets, today)

\* C28: whenever validate_input is waiting in the terminal menu, some input
\* exists that its validator accepts, so the prompt can be left and the
\* menu reached again, also when the Expense Store is empty.
C28_PromptCanBeAnswered ==
  pc = "validate_input" => \E x \in PromptInputs : Accepts(args[1], x)

\* an uploader of the Home page holds a file
FileInUploader == args[1] # NoFile \/ args[2] # NoFile

\* C29: once the Home page has loaded an upload into the session store, a
\* later script run renders the alerts and the summary of the Home page
\* although the file is still in the uploader.
C29_UploadReachesRendering ==
  (pc = "script" /\ FileInUploader) ~> (pc = "rendered" \/ ~FileInUploader)

\* C30: every budget of the Budget Store has a category that is not empty
\* and a start_date: a budget added with a blank category is stored as
\* "overall", one added without start date is stored with today.
C30_BudgetsHaveCategoryAndStart ==
  \A i \in 1..Len(Budgets) :
     Budgets[i].category # "" /\ Budgets[i].start_date \notin {None, NaT}

====
